---------------------------- MODULE Spec2Model ----------------------------
(***************************************************************************)
(* Crossword board generator: the trie, the backtracking grid fill, the    *)
(* entry extractor and the per-date generation loop of                     *)
(* puzzle_generation/board_generation/generate_boards.py.                  *)
(*                                                                         *)
(* A character is a one-letter string, a word is a sequence of characters. *)
(* A trie node is named by the path of characters that leads to it from    *)
(* the root (the root is the empty path); a trie is a function from the    *)
(* paths of its nodes to their [count, is_word_end] fields.  A node's      *)
(* children are the nodes whose path extends its own by one character.     *)
(***************************************************************************)
EXTENDS Integers, Sequences, FiniteSets, TLC

VARIABLES
    trie,           \* the Trie object (shared by the three specifications)
    loaded,         \* SpecTrie history: word -> number of add_word calls that loaded it
    disabled,       \* SpecTrie history: word -> number of remove_word calls on it
    enabled,        \* SpecTrie history: word -> number of add_word calls that re-enabled it
    disciplined,    \* SpecTrie history: every remove_word so far hit a currently enabled word
    on_loaded,      \* SpecTrie history: every remove_word so far hit a word loaded before it
    last_op,        \* SpecTrie history: the last call, with the trie before it
    rows,           \* fill_grid: its rows argument
    cols,           \* fill_grid: its cols argument
    black_squares,  \* fill_grid: its black_squares argument, a set of <<r, c>>
    words,          \* the word set the trie given to fill_grid was built from
    trie0,          \* the trie as it was when fill_grid was called
    grid,           \* fill_grid: grid, a list of rows of one-letter strings ("" is empty)
    used_words,     \* fill_grid: used_words
    stack,          \* the frames of the backtrack calls that are inside their for loop
    pc,             \* "call", "loop", "returned", "done" (fill_grid returned) or "raised"
    pos_index,      \* the argument of the backtrack call being entered
    ret,            \* the value the last finished backtrack call returned
    result,         \* the value fill_grid returned
    earlier,        \* what the same call (same arguments, date and attempt)
                    \* returned in an earlier run of the program, if there was one
    template_by_day,        \* main: weekday name -> <<rows, cols, blacks>>
    base_words,             \* main: base_words
    exclusions,             \* main: exclusions
    end_dt,                 \* main: end_dt, in days from start_dt (start_dt is day 0)
    history_words_by_date,  \* main: history_words_by_date, keyed by day number
    previously_used_words,  \* main: previously_used_words
    cur,                    \* main: cur, in days from start_dt
    attempt,                \* main: attempt
    out_f,                  \* main: the records written to the output file
    entries,                \* main: entries, the value compute_entries returned
    mpc                     \* main: "loop", "fill" (inside the attempt loop) or "end"

histVars == <<loaded, disabled, enabled, disciplined, on_loaded, last_op>>

\* what a fill_grid call does not assign: its arguments, and the history
callVars == <<rows, cols, black_squares, words, trie0, earlier, template_by_day, base_words,
              exclusions, end_dt, history_words_by_date, previously_used_words,
              cur, attempt, out_f, entries, mpc>>

fillVars == <<rows, cols, black_squares, words, trie0, grid, used_words,
              stack, pc, pos_index, ret, result, earlier>>

mainVars == <<template_by_day, base_words, exclusions, end_dt,
              history_words_by_date, previously_used_words, cur, attempt, out_f,
              entries, mpc>>

vars == <<trie, histVars, fillVars, mainVars>>

-----------------------------------------------------------------------------
(* Bounds of the model *)

\* most calls of add_word / remove_word in a run of SpecTrie
MaxTrieOps == 5

-----------------------------------------------------------------------------
(* Trie *)

Prefix(word, n) == SubSeq(word, 1, n)

\* TrieNode.__init__
TrieNode == [count |-> 0, is_word_end |-> FALSE]

\* Trie.__init__
NewTrie == (<<>> :> TrieNode)

\* `c in current.children`, current being the node at depth i of word's path
HasChild(t, word, i) == Prefix(word, i + 1) \in DOMAIN t

RECURSIVE add_word_from(_, _, _)
add_word_from(t, word, i) ==
    LET current == Prefix(word, i) IN
    IF i = Len(word)
    THEN [t EXCEPT ![current] = [count |-> @.count + 1, is_word_end |-> TRUE]]
    ELSE LET t1 == IF HasChild(t, word, i) THEN t
                   ELSE (Prefix(word, i + 1) :> TrieNode) @@ t
             t2 == [t1 EXCEPT ![current].count = @ + 1]
         IN add_word_from(t2, word, i + 1)

\* Trie.add_word
add_word(t, word) == add_word_from(t, word, 0)

RECURSIVE remove_word_from(_, _, _)
remove_word_from(t, word, i) ==
    LET current == Prefix(word, i) IN
    IF i = Len(word)
    THEN [t EXCEPT ![current].count = @ - 1]
    ELSE IF ~HasChild(t, word, i) THEN t
         ELSE remove_word_from([t EXCEPT ![current].count = @ - 1], word, i + 1)

\* remove_word without its last statement (the terminal node keeps its count)
remove_word_keep_end(t, word) ==
    LET r == remove_word_from(t, word, 0)
    IN IF word \in DOMAIN t THEN [r EXCEPT ![word].count = @ + 1] ELSE r

\* Trie.remove_word
remove_word(t, word) == remove_word_from(t, word, 0)

\* every child, whatever its count
LiveChildren_any_count(t, current, alphabet) ==
    {k \in alphabet : Append(current, k) \in DOMAIN t}

\* the characters k with (k, v) in current.children.items() and v.count > 0
LiveChildren(t, current, alphabet) ==
    {k \in alphabet : /\ Append(current, k) \in DOMAIN t
                      /\ t[Append(current, k)].count > 0}

RECURSIVE is_valid_prefix_from(_, _, _, _)
is_valid_prefix_from(t, prefix, i, alphabet) ==
    IF i = Len(prefix)
    THEN LiveChildren(t, prefix, alphabet)
    ELSE IF ~HasChild(t, prefix, i) THEN {}
         ELSE IF t[Prefix(prefix, i + 1)].count = 0 THEN {}
              ELSE is_valid_prefix_from(t, prefix, i + 1, alphabet)

\* Trie.is_valid_prefix; alphabet is the set of characters a node can be keyed by
is_valid_prefix(t, prefix, alphabet) == is_valid_prefix_from(t, prefix, 0, alphabet)

\* Trie.is_word: the walk returns False at the first missing child, and the
\* children of a node on the path exist exactly when the whole path does
is_word(t, word) ==
    /\ \A i \in 0..(Len(word) - 1) : HasChild(t, word, i)
    /\ t[word].is_word_end
    /\ t[word].count > 0

-----------------------------------------------------------------------------
(* SpecTrie: any sequence of add_word / remove_word calls on one trie *)

\* the program was not run before
NoEarlierRun == [ran |-> FALSE, result |-> <<>>]

\* no fill_grid call is in progress
FillIdle ==
    /\ rows = 0 /\ cols = 0 /\ black_squares = {} /\ words = {}
    /\ trie0 = NewTrie /\ grid = <<>> /\ used_words = {} /\ stack = <<>>
    /\ pc = "idle" /\ pos_index = 0 /\ ret = FALSE /\ result = <<>>
    /\ earlier = NoEarlierRun

\* main is not running
MainIdle ==
    /\ template_by_day = <<>> /\ base_words = {} /\ exclusions = {} /\ end_dt = 0
    /\ history_words_by_date = <<>> /\ previously_used_words = {}
    /\ cur = 0 /\ attempt = 0 /\ out_f = <<>> /\ entries = <<>> /\ mpc = "idle"

TrieAlphabet == {"a", "b", "c"}

\* the words the calls are made with: "ab" is a proper prefix of "abc"
TrieWords == { <<"a", "b">>, <<"a", "b", "c">>, <<"a", "c">>, <<"b", "a">> }

ZeroBag == [w \in TrieWords |-> 0]

TrieOps == LET Sum(f) == f[<<"a", "b">>] + f[<<"a", "b", "c">>]
                         + f[<<"a", "c">>] + f[<<"b", "a">>]
           IN Sum(loaded) + Sum(disabled) + Sum(enabled)

\* number of times w is currently enabled
EnabledCount(w) == loaded[w] + enabled[w] - disabled[w]

InitTrie ==
    /\ trie = NewTrie
    /\ loaded = ZeroBag
    /\ disabled = ZeroBag
    /\ enabled = ZeroBag
    /\ disciplined = TRUE
    /\ on_loaded = TRUE
    /\ last_op = [op |-> "none", word |-> <<>>, before |-> NewTrie]
    /\ FillIdle
    /\ MainIdle

\* add_word called to load a word into the trie (build_trie_from_words)
Load(w) ==
    /\ TrieOps < MaxTrieOps
    /\ trie' = add_word(trie, w)
    /\ loaded' = [loaded EXCEPT ![w] = @ + 1]
    /\ last_op' = [op |-> "add_word", word |-> w, before |-> trie]
    /\ UNCHANGED <<disabled, enabled, disciplined, on_loaded>>
    /\ UNCHANGED <<fillVars, mainVars>>

\* remove_word: disable a word
Disable(w) ==
    /\ TrieOps < MaxTrieOps
    /\ trie' = remove_word(trie, w)
    /\ disabled' = [disabled EXCEPT ![w] = @ + 1]
    /\ disciplined' = (disciplined /\ EnabledCount(w) > 0)
    /\ on_loaded' = (on_loaded /\ loaded[w] > 0)
    /\ last_op' = [op |-> "remove_word", word |-> w, before |-> trie]
    /\ UNCHANGED <<loaded, enabled>>
    /\ UNCHANGED <<fillVars, mainVars>>

\* add_word called to enable a word again (the undo of fill_grid)
Enable(w) ==
    /\ TrieOps < MaxTrieOps
    /\ loaded[w] > 0
    /\ trie' = add_word(trie, w)
    /\ enabled' = [enabled EXCEPT ![w] = @ + 1]
    /\ last_op' = [op |-> "add_word", word |-> w, before |-> trie]
    /\ UNCHANGED <<loaded, disabled, disciplined, on_loaded>>
    /\ UNCHANGED <<fillVars, mainVars>>

NextTrie ==
    \/ \E w \in TrieWords : Load(w)
    \/ \E w \in TrieWords : Disable(w)
    \/ \E w \in TrieWords : Enable(w)

SpecTrie == InitTrie /\ [][NextTrie]_vars

-----------------------------------------------------------------------------
(* Characters, str.lower / str.upper / str.isalpha on the model's characters *)

LowerLetters == <<"a", "b", "c", "e", "i", "o", "s", "t">>
UpperLetters == <<"A", "B", "C", "E", "I", "O", "S", "T">>

\* the characters a trie node of the fill can be keyed by
Alphabet == {LowerLetters[i] : i \in DOMAIN LowerLetters}

IndexIn(seq, ch) == CHOOSE i \in DOMAIN seq : seq[i] = ch

\* str.lower, character by character
lower_char(ch) ==
    IF \E i \in DOMAIN UpperLetters : UpperLetters[i] = ch
    THEN LowerLetters[IndexIn(UpperLetters, ch)] ELSE ch

lower(w) == [i \in DOMAIN w |-> lower_char(w[i])]

\* str.upper, character by character
upper_char(ch) ==
    IF \E i \in DOMAIN LowerLetters : LowerLetters[i] = ch
    THEN UpperLetters[IndexIn(LowerLetters, ch)] ELSE ch

upper(w) == [i \in DOMAIN w |-> upper_char(w[i])]

\* str.isalpha: nonempty and every character a letter
isalpha(w) ==
    /\ Len(w) > 0
    /\ \A i \in DOMAIN w :
          \/ \E k \in DOMAIN LowerLetters : LowerLetters[k] = w[i]
          \/ \E k \in DOMAIN UpperLetters : UpperLetters[k] = w[i]

Max(a, b) == IF a >= b THEN a ELSE b

\* the permutations of a finite set, as sequences: what random.shuffle can
\* leave in the list
Perms(S) ==
    {f \in [1..Cardinality(S) -> S] : \A i, j \in DOMAIN f : f[i] = f[j] => i = j}

-----------------------------------------------------------------------------
(* build_trie_from_words *)

\* the words build_trie_from_words keeps: lowercased, alphabetic, of admitted length
kept_words(all_words, max_length, min_length) ==
    {lower(w) : w \in {v \in all_words :
                         /\ isalpha(lower(v))
                         /\ Len(v) >= min_length
                         /\ Len(v) <= max_length}}

\* how many words of all_words are kept as lw (two spellings of one word are
\* both appended to words_by_len, and added twice)
kept_times(all_words, lw) == Cardinality({v \in all_words : lower(v) = lw})

RECURSIVE add_word_times(_, _, _)
add_word_times(t, w, n) == IF n = 0 THEN t ELSE add_word_times(add_word(t, w), w, n - 1)

RECURSIVE add_words(_, _, _)
\* the second loop of build_trie_from_words: add_word of every kept word
add_words(t, all_words, todo) ==
    IF todo = {} THEN t
    ELSE LET lw == CHOOSE v \in todo : TRUE
         IN add_words(add_word_times(t, lw, kept_times(all_words, lw)),
                      all_words, todo \ {lw})

build_trie_from_words(all_words, max_length, min_length) ==
    add_words(NewTrie, all_words, kept_words(all_words, max_length, min_length))

-----------------------------------------------------------------------------
(* fill_grid: the grid helpers.  Rows and columns are numbered from 0 as in *)
(* the source; grid[r][c] of the source is At(g, r, c).                     *)

At(g, r, c) == g[r + 1][c + 1]

\* [[''] * cols for _ in range(rows)]
empty_grid(nrows, ncols) == [r \in 1..nrows |-> [c \in 1..ncols |-> ""]]

\* grid[r][c] = ch
set_cell(g, r, c, ch) == [g EXCEPT ![r + 1][c + 1] = ch]

is_black(blacks, r, c) == <<r, c>> \in blacks

\* fill_positions: the non-black cells in row-major order
fill_positions(nrows, ncols, blacks) ==
    SelectSeq([k \in 1..(nrows * ncols) |-> <<(k - 1) \div ncols, (k - 1) % ncols>>],
              LAMBDA cell : cell \notin blacks)

RECURSIVE row_prefix_start(_, _, _, _, _)
\* the while loop of get_row_prefix: the value of start_c it leaves
row_prefix_start(g, blacks, r, cc, start_c) ==
    IF cc >= 0 /\ ~is_black(blacks, r, cc)
    THEN IF At(g, r, cc) = "" THEN cc
         ELSE row_prefix_start(g, blacks, r, cc - 1, cc)
    ELSE start_c

RECURSIVE row_prefix_chars(_, _, _, _)
\* the for loop of get_row_prefix, from column x
row_prefix_chars(g, r, x, c) ==
    IF x >= c THEN <<>>
    ELSE IF At(g, r, x) = "" THEN <<>>
         ELSE <<At(g, r, x)>> \o row_prefix_chars(g, r, x + 1, c)

get_row_prefix(g, blacks, r, c) ==
    row_prefix_chars(g, r, row_prefix_start(g, blacks, r, c - 1, c), c)

RECURSIVE col_prefix_start(_, _, _, _, _)
col_prefix_start(g, blacks, rr, c, start_r) ==
    IF rr >= 0 /\ ~is_black(blacks, rr, c)
    THEN IF At(g, rr, c) = "" THEN rr
         ELSE col_prefix_start(g, blacks, rr - 1, c, rr)
    ELSE start_r

RECURSIVE col_prefix_chars(_, _, _, _)
col_prefix_chars(g, x, r, c) ==
    IF x >= r THEN <<>>
    ELSE IF At(g, x, c) = "" THEN <<>>
         ELSE <<At(g, x, c)>> \o col_prefix_chars(g, x + 1, r, c)

get_col_prefix(g, blacks, r, c) ==
    col_prefix_chars(g, col_prefix_start(g, blacks, r - 1, c, r), r, c)

completes_across(ncols, blacks, r, c) == c = ncols - 1 \/ is_black(blacks, r, c + 1)

completes_down(nrows, blacks, r, c) == r = nrows - 1 \/ is_black(blacks, r + 1, c)

RECURSIVE row_word_start(_, _, _, _, _)
\* the while loop of build_completed_row_word
row_word_start(g, blacks, r, cc, start_c) ==
    IF cc >= 0 /\ ~is_black(blacks, r, cc) /\ At(g, r, cc) # ""
    THEN row_word_start(g, blacks, r, cc - 1, cc)
    ELSE start_c

build_completed_row_word(g, blacks, r, c, char) ==
    LET start_c == row_word_start(g, blacks, r, c - 1, c)
    IN [k \in 1..(c - start_c) |-> At(g, r, start_c + k - 1)] \o <<char>>

RECURSIVE col_word_start(_, _, _, _, _)
col_word_start(g, blacks, rr, c, start_r) ==
    IF rr >= 0 /\ ~is_black(blacks, rr, c) /\ At(g, rr, c) # ""
    THEN col_word_start(g, blacks, rr - 1, c, rr)
    ELSE start_r

build_completed_col_word(g, blacks, r, c, char) ==
    LET start_r == col_word_start(g, blacks, r - 1, c, r)
    IN [k \in 1..(r - start_r) |-> At(g, start_r + k - 1, c)] \o <<char>>

-----------------------------------------------------------------------------
(* build_final_grid and compute_entries *)

\* Python's None, which is no str
None == "<None>"

build_final_grid(nrows, ncols, blacks, g) ==
    [r \in 1..nrows |->
        [c \in 1..ncols |->
            IF <<r - 1, c - 1>> \in blacks THEN None ELSE upper_char(g[r][c])]]

\* val if isinstance(val, str) else ''
letter_of(val) == IF val # None THEN val ELSE ""

\* the inner while loop without its is_black test: the run goes to the edge
across_end_to_edge(ncols, blacks, r, end_c) == ncols

RECURSIVE across_end(_, _, _, _)
\* while end_c < cols and not is_black(r, end_c): end_c += 1
across_end(ncols, blacks, r, end_c) ==
    IF end_c < ncols /\ ~is_black(blacks, r, end_c)
    THEN across_end(ncols, blacks, r, end_c + 1) ELSE end_c

RECURSIVE across_scan(_, _, _, _, _)
\* the while loop over c of the across pass, for row r
across_scan(ncols, blacks, fg, r, c) ==
    IF c >= ncols THEN <<>>
    ELSE IF ~is_black(blacks, r, c) /\ (c = 0 \/ is_black(blacks, r, c - 1))
         THEN LET end_c == across_end(ncols, blacks, r, c)
                  length == end_c - c
                  entry == [direction |-> "across", row |-> r, col |-> c,
                            length |-> length,
                            answer |-> [k \in 1..length |->
                                           letter_of(At(fg, r, c + k - 1))]]
              IN (IF length >= 2 THEN <<entry>> ELSE <<>>)
                 \o across_scan(ncols, blacks, fg, r, end_c)
         ELSE across_scan(ncols, blacks, fg, r, c + 1)

RECURSIVE across_entries(_, _, _, _, _)
\* for r in range(rows): the across pass from row r on
across_entries(nrows, ncols, blacks, fg, r) ==
    IF r >= nrows THEN <<>>
    ELSE across_scan(ncols, blacks, fg, r, 0)
         \o across_entries(nrows, ncols, blacks, fg, r + 1)

RECURSIVE down_end(_, _, _, _)
down_end(nrows, blacks, end_r, c) ==
    IF end_r < nrows /\ ~is_black(blacks, end_r, c)
    THEN down_end(nrows, blacks, end_r + 1, c) ELSE end_r

RECURSIVE down_scan(_, _, _, _, _)
\* the while loop over r of the down pass, for column c
down_scan(nrows, blacks, fg, r, c) ==
    IF r >= nrows THEN <<>>
    ELSE IF ~is_black(blacks, r, c) /\ (r = 0 \/ is_black(blacks, r - 1, c))
         THEN LET end_r == down_end(nrows, blacks, r, c)
                  length == end_r - r
                  entry == [direction |-> "down", row |-> r, col |-> c,
                            length |-> length,
                            answer |-> [k \in 1..length |->
                                           letter_of(At(fg, r + k - 1, c))]]
              IN (IF length >= 2 THEN <<entry>> ELSE <<>>)
                 \o down_scan(nrows, blacks, fg, end_r, c)
         ELSE down_scan(nrows, blacks, fg, r + 1, c)

RECURSIVE down_entries(_, _, _, _, _)
down_entries(nrows, ncols, blacks, fg, c) ==
    IF c >= ncols THEN <<>>
    ELSE down_scan(nrows, blacks, fg, 0, c)
         \o down_entries(nrows, ncols, blacks, fg, c + 1)

\* the two passes in the other order
compute_entries_down_first(nrows, ncols, blacks, final_grid) ==
    down_entries(nrows, ncols, blacks, final_grid, 0)
    \o across_entries(nrows, ncols, blacks, final_grid, 0)

compute_entries(nrows, ncols, blacks, final_grid) ==
    across_entries(nrows, ncols, blacks, final_grid, 0)
    \o down_entries(nrows, ncols, blacks, final_grid, 0)

-----------------------------------------------------------------------------
(* fill_grid.backtrack, one step at a time.  A frame of the stack is a call *)
(* of backtrack that is inside its for loop: its pos_index, its shuffled    *)
(* list possible, the number k of candidates it has taken from the list,    *)
(* the unique_completed of the candidate it committed last, and (history)   *)
(* the grid, used_words and trie it was entered with.                       *)

Positions == fill_positions(rows, cols, black_squares)

\* possible_for_row.intersection(possible_for_col); the three `return False`
\* of lines 211-219 are taken exactly when this set is empty
possible_letters(g, t, r, c) ==
    is_valid_prefix(t, get_row_prefix(g, black_squares, r, c), Alphabet)
    \cap is_valid_prefix(t, get_col_prefix(g, black_squares, r, c), Alphabet)

\* completed_words when neither is_word test fails
completed_words(g, r, c, ch) ==
    (IF completes_across(cols, black_squares, r, c)
     THEN <<build_completed_row_word(g, black_squares, r, c, ch)>> ELSE <<>>)
    \o
    (IF completes_down(rows, black_squares, r, c)
     THEN <<build_completed_col_word(g, black_squares, r, c, ch)>> ELSE <<>>)

RECURSIVE unique(_)
\* list(dict.fromkeys(ws)): the first occurrence of each word, in order
unique(ws) ==
    IF ws = <<>> THEN <<>>
    ELSE LET front == unique(SubSeq(ws, 1, Len(ws) - 1))
             w == ws[Len(ws)]
         IN IF \E i \in DOMAIN front : front[i] = w THEN front ELSE Append(front, w)

\* the `continue` of lines 226-239 without the test of line 236
skipped_allow_same(g, t, used, r, c, ch) ==
    LET ws == completed_words(g, r, c, ch) IN
    \/ /\ completes_across(cols, black_squares, r, c)
       /\ ~is_word(t, build_completed_row_word(g, black_squares, r, c, ch))
    \/ /\ completes_down(rows, black_squares, r, c)
       /\ ~is_word(t, build_completed_col_word(g, black_squares, r, c, ch))
    \/ \E i \in DOMAIN unique(ws) : unique(ws)[i] \in used

\* the four `continue` of lines 226-239: candidate ch is skipped
skipped(g, t, used, r, c, ch) ==
    LET ws == completed_words(g, r, c, ch) IN
    \/ /\ completes_across(cols, black_squares, r, c)
       /\ ~is_word(t, build_completed_row_word(g, black_squares, r, c, ch))
    \/ /\ completes_down(rows, black_squares, r, c)
       /\ ~is_word(t, build_completed_col_word(g, black_squares, r, c, ch))
    \/ Len(unique(ws)) # Len(ws)
    \/ \E i \in DOMAIN unique(ws) : unique(ws)[i] \in used

\* a commit that forgets its loop: no word is removed or recorded as used
commit_words_nothing(t, used, ws) == [trie |-> t, used_words |-> used]

RECURSIVE commit_words(_, _, _)
\* for w in unique_completed: trie.remove_word(w); used_words.add(w)
commit_words(t, used, ws) ==
    IF ws = <<>> THEN [trie |-> t, used_words |-> used]
    ELSE commit_words(remove_word(t, Head(ws)), used \cup {Head(ws)}, Tail(ws))

\* the undo loop without trie.add_word(w)
undo_words_keep_disabled(t, used, ws) ==
    [trie |-> t, used_words |-> used \ {ws[i] : i \in DOMAIN ws}, raised |-> FALSE]

RECURSIVE undo_words(_, _, _)
\* for w in unique_completed: trie.add_word(w); used_words.remove(w)
\* (set.remove raises KeyError when w is not in the set: the loop stops there)
undo_words(t, used, ws) ==
    IF ws = <<>> THEN [trie |-> t, used_words |-> used, raised |-> FALSE]
    ELSE IF Head(ws) \notin used
         THEN [trie |-> add_word(t, Head(ws)), used_words |-> used, raised |-> TRUE]
         ELSE undo_words(add_word(t, Head(ws)), used \ {Head(ws)}, Tail(ws))

Top == stack[Len(stack)]

TopCell == Positions[Top.pos_index + 1]

\* fill_grid is called: lines 131-138 have run and backtrack(0) is entered
fill_grid_call(nrows, ncols, blacks) ==
    /\ rows = nrows /\ cols = ncols /\ black_squares = blacks
    /\ grid = empty_grid(nrows, ncols)
    /\ used_words = {}
    /\ stack = <<>>
    /\ pc = "call" /\ pos_index = 0 /\ ret = FALSE /\ result = <<>>

\* backtrack(pos_index) with pos_index == len(fill_positions): return True
bt_filled ==
    /\ pc = "call"
    /\ pos_index = Len(Positions)
    /\ pc' = "returned" /\ ret' = TRUE
    /\ UNCHANGED <<trie, grid, used_words, stack, pos_index, result>>
    /\ UNCHANGED <<callVars, histVars>>

\* backtrack(pos_index) finds no candidate letter: return False (lines 211-219)
bt_no_letter ==
    /\ pc = "call"
    /\ pos_index < Len(Positions)
    /\ LET cell == Positions[pos_index + 1]
       IN possible_letters(grid, trie, cell[1], cell[2]) = {}
    /\ pc' = "returned" /\ ret' = FALSE
    /\ UNCHANGED <<trie, grid, used_words, stack, pos_index, result>>
    /\ UNCHANGED <<callVars, histVars>>

\* backtrack(pos_index) shuffles its candidates and enters its for loop
bt_shuffle ==
    /\ pc = "call"
    /\ pos_index < Len(Positions)
    /\ LET cell == Positions[pos_index + 1]
           letters == possible_letters(grid, trie, cell[1], cell[2])
       IN /\ letters # {}
          /\ \E order \in Perms(letters) :
                stack' = Append(stack,
                    [pos_index |-> pos_index, possible |-> order, k |-> 0,
                     unique_completed |-> <<>>,
                     entry |-> [grid |-> grid, used_words |-> used_words,
                                trie |-> trie]])
    /\ pc' = "loop"
    /\ UNCHANGED <<trie, grid, used_words, pos_index, ret, result>>
    /\ UNCHANGED <<callVars, histVars>>

\* continue without taking the next candidate
bt_skip_stay ==
    /\ pc = "loop"
    /\ Top.k < Len(Top.possible)
    /\ skipped(grid, trie, used_words, TopCell[1], TopCell[2], Top.possible[Top.k + 1])
    /\ UNCHANGED <<stack, trie, grid, used_words, pc, pos_index, ret, result>>
    /\ UNCHANGED <<callVars, histVars>>

\* the next candidate fails a test of lines 223-239: continue
bt_skip ==
    /\ pc = "loop"
    /\ Top.k < Len(Top.possible)
    /\ skipped(grid, trie, used_words, TopCell[1], TopCell[2], Top.possible[Top.k + 1])
    /\ stack' = [stack EXCEPT ![Len(stack)].k = @ + 1]
    /\ UNCHANGED <<trie, grid, used_words, pc, pos_index, ret, result>>
    /\ UNCHANGED <<callVars, histVars>>

\* the next candidate passes: commit it and call backtrack(pos_index + 1)
bt_commit ==
    /\ pc = "loop"
    /\ Top.k < Len(Top.possible)
    /\ LET r == TopCell[1]
           c == TopCell[2]
           ch == Top.possible[Top.k + 1]
           ws == unique(completed_words(grid, r, c, ch))
           done == commit_words(trie, used_words, ws)
       IN /\ ~skipped(grid, trie, used_words, r, c, ch)
          /\ grid' = set_cell(grid, r, c, ch)
          /\ trie' = done.trie
          /\ used_words' = done.used_words
          /\ stack' = [stack EXCEPT ![Len(stack)].k = @ + 1,
                                    ![Len(stack)].unique_completed = ws]
    /\ pc' = "call" /\ pos_index' = Top.pos_index + 1
    /\ UNCHANGED <<ret, result>>
    /\ UNCHANGED <<callVars, histVars>>

\* the for loop is over: return False (line 254)
bt_exhausted ==
    /\ pc = "loop"
    /\ Top.k = Len(Top.possible)
    /\ stack' = SubSeq(stack, 1, Len(stack) - 1)
    /\ pc' = "returned" /\ ret' = FALSE
    /\ UNCHANGED <<trie, grid, used_words, pos_index, result>>
    /\ UNCHANGED <<callVars, histVars>>

\* the recursive call returned True: return True (lines 246-247)
bt_propagate ==
    /\ pc = "returned" /\ ret /\ stack # <<>>
    /\ stack' = SubSeq(stack, 1, Len(stack) - 1)
    /\ UNCHANGED <<trie, grid, used_words, pc, pos_index, ret, result>>
    /\ UNCHANGED <<callVars, histVars>>

\* the recursive call returned False: undo the candidate (lines 249-252); a
\* KeyError of used_words.remove leaves fill_grid, and main, by the exception
bt_undo ==
    /\ pc = "returned" /\ ~ret /\ stack # <<>>
    /\ LET undone == undo_words(trie, used_words, Top.unique_completed)
       IN /\ trie' = undone.trie
          /\ used_words' = undone.used_words
          /\ grid' = IF undone.raised THEN grid
                     ELSE set_cell(grid, TopCell[1], TopCell[2], "")
          /\ pc' = IF undone.raised THEN "raised" ELSE "loop"
    /\ UNCHANGED <<stack, pos_index, ret, result>>
    /\ UNCHANGED <<callVars, histVars>>

\* fill_grid returning the grid without testing solved
fill_grid_return_unchecked ==
    /\ pc = "returned" /\ stack = <<>>
    /\ result' = grid
    /\ pc' = "done"
    /\ UNCHANGED <<trie, grid, used_words, stack, pos_index, ret>>
    /\ UNCHANGED <<callVars, histVars>>

\* backtrack(0) returned: fill_grid returns [] or the grid (lines 256-259)
fill_grid_return ==
    /\ pc = "returned" /\ stack = <<>>
    /\ result' = IF ~ret THEN <<>> ELSE grid
    /\ pc' = "done"
    /\ UNCHANGED <<trie, grid, used_words, stack, pos_index, ret>>
    /\ UNCHANGED <<callVars, histVars>>

-----------------------------------------------------------------------------
(* SpecFill: one call of fill_grid on the trie build_trie_from_words makes  *)
(* of a word set, for a template and a word set drawn from FillInputs       *)

\* most words in a word set drawn from TwoLetterWords
MaxDictWords == 4

W(str) == CASE str = "it" -> <<"i", "t">> [] str = "is" -> <<"i", "s">>
            [] str = "io" -> <<"i", "o">> [] str = "ts" -> <<"t", "s">>
            [] str = "os" -> <<"o", "s">> [] str = "aa" -> <<"a", "a">>
            [] str = "at" -> <<"a", "t">>
            [] str = "ab" -> <<"a", "b">> [] str = "ba" -> <<"b", "a">>
            [] str = "tic" -> <<"t", "i", "c">> [] str = "tea" -> <<"t", "e", "a">>
            [] str = "cat" -> <<"c", "a", "t">> [] str = "act" -> <<"a", "c", "t">>
            [] str = "ice" -> <<"i", "c", "e">> [] str = "sea" -> <<"s", "e", "a">>
            [] str = "ace" -> <<"a", "c", "e">> [] str = "ate" -> <<"a", "t", "e">>
            [] str = "ca" -> <<"c", "a">> [] str = "te" -> <<"t", "e">>

TwoLetterWords ==
    {W("it"), W("is"), W("io"), W("ts"), W("os"), W("aa"), W("ab"), W("ba")}

\* scenario S1 as written, and with the word "os" its example grid uses
WordsS1 == {W("it"), W("is"), W("io"), W("ts")}
WordsS1os == {W("it"), W("os"), W("io"), W("ts")}
\* scenario S2: tic / tea / cat / act fit the two outer rows and columns
WordsS2 == {W("tic"), W("tea"), W("cat"), W("act")}
\* scenario S3
WordsS3 == {W("aa")}
\* fits the 3x3 grid whose corner (0,0) is black: at / ice / sea, is / ace / tea
WordsCorner == {W("at"), W("is"), W("ice"), W("sea"), W("ace"), W("tea")}
\* fills the same grid up to its last cell, where the last row and the last
\* column would both be "tea": at / ice / te., it / ace / te.
WordsSameWord == {W("at"), W("it"), W("ice"), W("ace"), W("tea")}

Template(nrows, ncols, blacks) == [rows |-> nrows, cols |-> ncols, blacks |-> blacks]

FillInputs ==
    {[template |-> Template(2, 2, {}), words |-> d] :
        d \in {x \in SUBSET TwoLetterWords : Cardinality(x) <= MaxDictWords}}
    \cup {[template |-> Template(3, 3, {<<1, 1>>}), words |-> WordsS2],
          [template |-> Template(3, 3, {<<0, 0>>}), words |-> WordsCorner],
          [template |-> Template(3, 3, {<<0, 0>>}), words |-> WordsSameWord],
          [template |-> Template(1, 4, {<<0, 1>>}), words |-> {W("at")}],
          [template |-> Template(1, 3, {<<0, 1>>}), words |-> {}],
          [template |-> Template(0, 2, {}), words |-> {W("at")}]}

TrieIdle ==
    /\ loaded = ZeroBag /\ disabled = ZeroBag /\ enabled = ZeroBag
    /\ disciplined = TRUE /\ on_loaded = TRUE
    /\ last_op = [op |-> "none", word |-> <<>>, before |-> NewTrie]

InitFill ==
    /\ \E input \in FillInputs :
          /\ words = input.words
          /\ trie = build_trie_from_words(input.words,
                        Max(input.template.rows, input.template.cols), 2)
          /\ fill_grid_call(input.template.rows, input.template.cols,
                            input.template.blacks)
    /\ trie0 = trie
    /\ earlier = NoEarlierRun
    /\ TrieIdle
    /\ MainIdle

\* the program is run a second time, in a new process, and makes the same
\* call: the same template and words, the same date and attempt.  The seed
\* is (hash(iso(cur)) ^ attempt) & 0xFFFFFFFF, and the hash of a str is salted
\* per process, as is the order in which list(set) lists the candidates: the
\* shuffles of the new run are not bound to those of the earlier one.
run_again ==
    /\ pc = "done" /\ ~earlier.ran
    /\ earlier' = [ran |-> TRUE, result |-> result]
    /\ trie' = trie0
    /\ grid' = empty_grid(rows, cols)
    /\ used_words' = {} /\ stack' = <<>>
    /\ pc' = "call" /\ pos_index' = 0 /\ ret' = FALSE /\ result' = <<>>
    /\ UNCHANGED <<rows, cols, black_squares, words, trie0>>
    /\ UNCHANGED <<mainVars, histVars>>

NextFill ==
    \/ bt_filled
    \/ bt_no_letter
    \/ bt_shuffle
    \/ bt_skip
    \/ bt_commit
    \/ bt_exhausted
    \/ bt_propagate
    \/ bt_undo
    \/ fill_grid_return
    \/ run_again

Spec == InitFill /\ [][NextFill]_vars

\* fills the 2x2 grid: aa / bc, ab / ac
WordsLive == {<<"a", "a">>, <<"b", "c">>, <<"a", "b">>, <<"a", "c">>}

\* the calls whose termination is checked: the 2x2 grid without a solution
\* (scenario S1) and with one, a row with a unit run, an empty dictionary and
\* a template without rows
LiveInputs ==
    {[template |-> Template(2, 2, {}), words |-> d] : d \in {WordsS1, WordsLive}}
    \cup {[template |-> Template(1, 4, {<<0, 1>>}), words |-> {W("at")}],
          [template |-> Template(1, 3, {<<0, 1>>}), words |-> {}],
          [template |-> Template(0, 2, {}), words |-> {W("at")}]}

InitLive ==
    /\ \E input \in LiveInputs :
          /\ words = input.words
          /\ trie = build_trie_from_words(input.words,
                        Max(input.template.rows, input.template.cols), 2)
          /\ fill_grid_call(input.template.rows, input.template.cols,
                            input.template.blacks)
    /\ trie0 = trie
    /\ earlier = NoEarlierRun
    /\ TrieIdle
    /\ MainIdle

\* the interpreter runs the call: a statement that can be executed is executed
SpecLive == InitLive /\ [][NextFill]_vars /\ WF_vars(NextFill)

-----------------------------------------------------------------------------
(* SpecMain: main's loop over the dates start_dt .. end_dt.  A date is the   *)
(* number of days from start_dt (start_dt is day 0, a Monday); the history   *)
(* fetched for the 100 days before it is keyed by the days -100 .. -1.       *)

\* timedelta(days=100) of the window, and range(100, 0, -1) of the fetch
HISTORY_DAYS == 100

\* range(20) of the attempt loop
ATTEMPTS == 20

\* most dates in the range start_dt .. end_dt
MaxDates == 3

Weekdays == <<"Monday", "Tuesday", "Wednesday", "Thursday", "Friday",
              "Saturday", "Sunday">>

\* cur.strftime('%A')
weekday_name(d) == Weekdays[(d % 7) + 1]

\* the days before start_dt for which the history fetch returns words
FetchedDays == {0 - HISTORY_DAYS, 1 - HISTORY_DAYS, 0 - 1}

\* the words such a day's payload can hold ("IT" is lowercased by the fetch)
FetchedPayloads == {{}, {W("it")}, {<<"I", "T">>, W("os")}}

\* templates.txt: the 2x2 template on every weekday but Wednesday, whose
\* template is 1x3 with its middle cell black; or the 2x2 template on every
\* weekday but Monday, which has none; or the lines "Monday: 0x2, []" and
\* "Tuesday: 2x2, [(2,2)]", which parse_templates takes as they are
TemplateMaps ==
    {[day \in {Weekdays[i] : i \in 1..7} |->
         IF day = "Wednesday" THEN <<1, 3, {<<0, 1>>}>> ELSE <<2, 2, {}>>],
     [day \in {Weekdays[i] : i \in 2..7} |-> <<2, 2, {}>>],
     [day \in {"Monday", "Tuesday"} |->
         IF day = "Monday" THEN <<0, 2, {}>> ELSE <<2, 2, {<<2, 2>>}>>]}

\* load_base_wordlist: the stripped lines of filtered_words.txt, lowercased,
\* the empty and the non-alphabetic ones dropped
load_base_wordlist(lines) ==
    {lower(w) : w \in {v \in lines : v # <<>> /\ isalpha(lower(v))}}

\* load_exclusions: the same for conrads_exclusions.txt
load_exclusions(lines) ==
    {lower(w) : w \in {v \in lines : v # <<>> /\ isalpha(lower(v))}}

\* filtered_words.txt: the words of S1 with "os", "aa", a word in capitals and
\* a line that is no word; with or without the three-letter word "tic"
BaseFiles ==
    LET file == WordsS1os \cup {W("aa"), <<"O", "S">>, <<"t", "2">>}
    IN {file, file \cup {W("tic")}}

\* conrads_exclusions.txt
ExclusionsFile == {<<"A", "A">>}

\* usable_words without .difference(exclusions)
usable_words_keep_excluded(base, excl, previously_used) == base \ previously_used

\* drop_words = history_words_by_date.get(iso(cur - 100)); if drop_words:
\* previously_used_words.difference_update(drop_words)
roll_window(history, previously_used, day) ==
    LET drop_day == day - HISTORY_DAYS
    IN IF drop_day \in DOMAIN history /\ history[drop_day] # {}
       THEN previously_used \ history[drop_day]
       ELSE previously_used

\* base_words.difference(exclusions).difference(previously_used_words)
usable_words(base, excl, previously_used) == (base \ excl) \ previously_used

\* today_words: the lowercased nonempty answers of the entries
today_words(es) ==
    {lower(es[i].answer) : i \in {j \in DOMAIN es : es[j].answer # <<>>}}

\* main up to the while loop: templates, word lists and the fetched history
InitMain ==
    /\ template_by_day \in TemplateMaps
    /\ \E file \in BaseFiles : base_words = load_base_wordlist(file)
    /\ exclusions = load_exclusions(ExclusionsFile)
    /\ end_dt = MaxDates - 1
    /\ \E fetched \in [FetchedDays -> FetchedPayloads] :
          /\ history_words_by_date =
                [d \in {x \in FetchedDays : fetched[x] # {}} |->
                    {lower(w) : w \in fetched[d]}]
          /\ previously_used_words =
                UNION {{lower(w) : w \in fetched[d]} : d \in FetchedDays}
    /\ cur = 0 /\ attempt = 0 /\ out_f = <<>> /\ entries = <<>> /\ mpc = "loop"
    /\ trie = NewTrie
    /\ TrieIdle
    /\ FillIdle

fillState == <<trie, rows, cols, black_squares, words, trie0, grid, used_words,
               stack, pc, pos_index, ret, result>>

\* what the loop of main never assigns
mainInputs == <<template_by_day, base_words, exclusions, end_dt, earlier>>

\* the no-template branch without its roll of the window
main_skip_no_template_no_roll ==
    /\ mpc = "loop" /\ cur <= end_dt
    /\ weekday_name(cur) \notin DOMAIN template_by_day
    /\ cur' = cur + 1
    /\ UNCHANGED <<history_words_by_date, previously_used_words, attempt, out_f,
                   entries, mpc>>
    /\ UNCHANGED <<fillState, mainInputs, histVars>>

\* no template for the weekday: roll the window and go to the next date
main_skip_no_template ==
    /\ mpc = "loop" /\ cur <= end_dt
    /\ weekday_name(cur) \notin DOMAIN template_by_day
    /\ previously_used_words' =
          roll_window(history_words_by_date, previously_used_words, cur)
    /\ cur' = cur + 1
    /\ UNCHANGED <<history_words_by_date, attempt, out_f, entries, mpc>>
    /\ UNCHANGED <<fillState, mainInputs, histVars>>

\* no usable word: roll the window and go to the next date
main_skip_no_words ==
    /\ mpc = "loop" /\ cur <= end_dt
    /\ weekday_name(cur) \in DOMAIN template_by_day
    /\ usable_words(base_words, exclusions, previously_used_words) = {}
    /\ previously_used_words' =
          roll_window(history_words_by_date, previously_used_words, cur)
    /\ cur' = cur + 1
    /\ UNCHANGED <<history_words_by_date, attempt, out_f, entries, mpc>>
    /\ UNCHANGED <<fillState, mainInputs, histVars>>

\* build the trie of the date and enter the attempt loop: fill_grid, attempt 0
main_first_attempt ==
    /\ mpc = "loop" /\ cur <= end_dt
    /\ weekday_name(cur) \in DOMAIN template_by_day
    /\ LET template == template_by_day[weekday_name(cur)]
           usable == usable_words(base_words, exclusions, previously_used_words)
       IN /\ usable # {}
          /\ words' = usable
          /\ trie' = build_trie_from_words(usable, Max(template[1], template[2]), 2)
          /\ rows' = template[1] /\ cols' = template[2]
          /\ black_squares' = template[3]
          /\ grid' = empty_grid(template[1], template[2])
    /\ trie0' = trie'
    /\ used_words' = {} /\ stack' = <<>>
    /\ pc' = "call" /\ pos_index' = 0 /\ ret' = FALSE /\ result' = <<>>
    /\ attempt' = 0
    /\ mpc' = "fill"
    /\ UNCHANGED <<history_words_by_date, previously_used_words, cur, out_f, entries>>
    /\ UNCHANGED <<mainInputs, histVars>>

\* the attempt loop with one attempt too many (range(21))
main_next_attempt_extra ==
    /\ mpc = "fill" /\ pc = "done" /\ result = <<>>
    /\ attempt + 1 <= ATTEMPTS
    /\ attempt' = attempt + 1
    /\ trie0' = trie
    /\ grid' = empty_grid(rows, cols)
    /\ used_words' = {} /\ stack' = <<>>
    /\ pc' = "call" /\ pos_index' = 0 /\ ret' = FALSE /\ result' = <<>>
    /\ UNCHANGED <<trie, rows, cols, black_squares, words>>
    /\ UNCHANGED <<history_words_by_date, previously_used_words, cur, out_f,
                   entries, mpc>>
    /\ UNCHANGED <<mainInputs, histVars>>

\* fill_grid returned []: the next attempt calls fill_grid on the same trie
main_next_attempt ==
    /\ mpc = "fill" /\ pc = "done" /\ result = <<>>
    /\ attempt + 1 < ATTEMPTS
    /\ attempt' = attempt + 1
    /\ trie0' = trie
    /\ grid' = empty_grid(rows, cols)
    /\ used_words' = {} /\ stack' = <<>>
    /\ pc' = "call" /\ pos_index' = 0 /\ ret' = FALSE /\ result' = <<>>
    /\ UNCHANGED <<trie, rows, cols, black_squares, words>>
    /\ UNCHANGED <<history_words_by_date, previously_used_words, cur, out_f,
                   entries, mpc>>
    /\ UNCHANGED <<mainInputs, histVars>>

\* every attempt failed: roll the window and go to the next date
main_skip_unsolved ==
    /\ mpc = "fill" /\ pc = "done" /\ result = <<>>
    /\ attempt + 1 = ATTEMPTS
    /\ previously_used_words' =
          roll_window(history_words_by_date, previously_used_words, cur)
    /\ cur' = cur + 1
    /\ mpc' = "loop"
    /\ UNCHANGED <<history_words_by_date, attempt, out_f, entries>>
    /\ UNCHANGED <<fillState, mainInputs, histVars>>

\* an attempt returned a grid: write the record, record today's words in the
\* history, roll the window and go to the next date (lines 521-564)
main_generated ==
    /\ mpc = "fill" /\ pc = "done" /\ result # <<>>
    /\ LET final_grid == build_final_grid(rows, cols, black_squares, result)
           today == today_words(compute_entries(rows, cols, black_squares, final_grid))
           history == (cur :> today) @@ history_words_by_date
       IN /\ entries' = compute_entries(rows, cols, black_squares, final_grid)
          /\ out_f' = Append(out_f, [date |-> cur, board |-> final_grid])
          /\ history_words_by_date' = history
          /\ previously_used_words' =
                roll_window(history, previously_used_words \cup today, cur)
    /\ cur' = cur + 1
    /\ mpc' = "loop"
    /\ UNCHANGED attempt
    /\ UNCHANGED <<fillState, mainInputs, histVars>>

\* cur > end_dt: the loop ends and the file is closed
main_end ==
    /\ mpc = "loop" /\ cur > end_dt
    /\ mpc' = "end"
    /\ UNCHANGED <<history_words_by_date, previously_used_words, cur, attempt, out_f,
                   entries>>
    /\ UNCHANGED <<fillState, mainInputs, histVars>>

NextMain ==
    \/ main_skip_no_template
    \/ main_skip_no_words
    \/ main_first_attempt
    \/ bt_filled
    \/ bt_no_letter
    \/ bt_shuffle
    \/ bt_skip
    \/ bt_commit
    \/ bt_exhausted
    \/ bt_propagate
    \/ bt_undo
    \/ fill_grid_return
    \/ main_next_attempt
    \/ main_skip_unsolved
    \/ main_generated
    \/ main_end

SpecMain == InitMain /\ [][NextMain]_vars

-----------------------------------------------------------------------------
(* SpecS6: main's loop over the dates of scenario S6.  "cat" is in the       *)
(* history fetched for the day start-50; the 2x3 template of Mondays and     *)
(* Thursdays is filled by cat / ate (down: ca, at, te) and by nothing else.  *)

\* the last date of the range: the first template day after start+51
MaxS6Day == 52

WordsS6 == {W("cat"), W("ate"), W("ca"), W("at"), W("te")}

\* templates.txt: the 2x3 template on Mondays and Thursdays, none otherwise
TemplatesS6 == [day \in {"Monday", "Thursday"} |-> <<2, 3, {}>>]

\* what the history fetch returns: "cat" for start-50, for start-100 nothing
\* or "cat" as well, for start-1 nothing or "at"
FetchedS6 ==
    {(0 - HISTORY_DAYS :> far) @@ (0 - 50 :> {W("cat")}) @@ (0 - 1 :> near) :
        far \in {{}, {W("cat")}}, near \in {{}, {W("at")}}}

InitS6 ==
    /\ template_by_day = TemplatesS6
    /\ base_words = WordsS6
    /\ exclusions = {}
    /\ end_dt = MaxS6Day
    /\ \E fetched \in FetchedS6 :
          /\ history_words_by_date =
                [d \in {x \in DOMAIN fetched : fetched[x] # {}} |->
                    {lower(w) : w \in fetched[d]}]
          /\ previously_used_words =
                UNION {{lower(w) : w \in fetched[d]} : d \in DOMAIN fetched}
    /\ cur = 0 /\ attempt = 0 /\ out_f = <<>> /\ entries = <<>> /\ mpc = "loop"
    /\ trie = NewTrie
    /\ TrieIdle
    /\ FillIdle

SpecS6 == InitS6 /\ [][NextMain]_vars

-----------------------------------------------------------------------------
(* SpecEntries: one call of compute_entries, on the final grid of a filled   *)
(* grid of any shape up to MaxSide x MaxSide with up to MaxBlacks black      *)
(* squares                                                                   *)

MaxSide == 5
MaxBlacks == 1

\* a filled grid: the cell k (row-major, from 0) holds the letter k + shift
\* of LowerLetters, counted cyclically; a black cell holds ''
lettered_grid(nrows, ncols, blacks, shift) ==
    [r \in 1..nrows |->
        [c \in 1..ncols |->
            IF <<r - 1, c - 1>> \in blacks THEN ""
            ELSE LowerLetters[(((r - 1) * ncols + (c - 1) + shift)
                                 % Len(LowerLetters)) + 1]]]

\* the sets of at most MaxBlacks cells of the grid (picks of MaxBlacks cells
\* with repetition, the cell <<nrows, ncols>> standing for no pick)
black_sets(nrows, ncols) ==
    LET cells == (0..(nrows - 1)) \X (0..(ncols - 1))
    IN {{pick[i] : i \in 1..MaxBlacks} \cap cells :
           pick \in [1..MaxBlacks -> cells \cup {<<nrows, ncols>>}]}

InitEntries ==
    /\ \E nrows \in 1..MaxSide, ncols \in 1..MaxSide :
          \E blacks \in black_sets(nrows, ncols) :
             \E shift \in 0..1 :
                /\ rows = nrows /\ cols = ncols /\ black_squares = blacks
                /\ grid = lettered_grid(nrows, ncols, blacks, shift)
    /\ words = {} /\ trie = NewTrie /\ trie0 = NewTrie
    /\ used_words = {} /\ stack = <<>>
    /\ pc = "idle" /\ pos_index = 0 /\ ret = FALSE /\ result = <<>>
    /\ earlier = NoEarlierRun
    /\ template_by_day = <<>> /\ base_words = {} /\ exclusions = {} /\ end_dt = 0
    /\ history_words_by_date = <<>> /\ previously_used_words = {}
    /\ cur = 0 /\ attempt = 0 /\ out_f = <<>> /\ entries = <<>>
    /\ mpc = "compute_entries"
    /\ TrieIdle

\* entries = compute_entries(rows, cols, blacks, final_grid)
entries_call ==
    /\ mpc = "compute_entries"
    /\ entries' = compute_entries(rows, cols, black_squares,
                      build_final_grid(rows, cols, black_squares, grid))
    /\ mpc' = "computed"
    /\ UNCHANGED <<trie, fillVars, histVars>>
    /\ UNCHANGED <<template_by_day, base_words, exclusions, end_dt,
                   history_words_by_date, previously_used_words, cur, attempt, out_f>>

NextEntries == entries_call

SpecEntries == InitEntries /\ [][NextEntries]_vars

-----------------------------------------------------------------------------
(* Properties of the trie *)

IsProperPrefix(p, w) == Len(p) < Len(w) /\ Prefix(w, Len(p)) = p

\* the paths a query can be made with: every string over TrieAlphabet as long
\* as the longest word or shorter
TriePaths == UNION {[1..n -> TrieAlphabet] : n \in 0..3}

RECURSIVE AddAll(_, _)
\* the trie obtained from t by add_word of every word of the bag
AddAll(t, bag) ==
    IF \A w \in DOMAIN bag : bag[w] = 0 THEN t
    ELSE LET w == CHOOSE v \in DOMAIN bag : bag[v] > 0
         IN AddAll(add_word(t, w), [bag EXCEPT ![w] = @ - 1])

Balanced == \A w \in TrieWords : disabled[w] = enabled[w]

\* C4 (as claimed): after add_word / remove_word (disable) / add_word (enable)
\* calls, each disable made on a currently enabled word, is_word(w) is true
\* iff w was added and is not currently disabled -- also when w is a proper
\* prefix of a word that is still enabled.
C4_IsWordIffEnabled ==
    disciplined =>
        \A w \in TrieWords :
            is_word(trie, w) <=> (loaded[w] > 0 /\ EnabledCount(w) > 0)

C6_BalancedRoundTrip ==
    (on_loaded /\ Balanced) => trie = AddAll(NewTrie, loaded)

\* C6 witness: "ab" was disabled and enabled again beside "abc".
C6_Witness ==
    /\ on_loaded /\ Balanced
    /\ disabled[<<"a", "b">>] = 1
    /\ loaded[<<"a", "b">>] = 1 /\ loaded[<<"a", "b", "c">>] = 1
    /\ last_op.op = "add_word" /\ last_op.word = <<"a", "b">>

\* C22 (as claimed): count >= 0 at every trie node in every reachable state,
\* after any sequence of add_word and remove_word calls.
C22_CountsNonNegative ==
    \A path \in DOMAIN trie : trie[path].count >= 0

\* C28 (as claimed): a remove_word call with a word whose path is not
\* fully present in the trie leaves the trie as it was before the call.
C28_RemoveAbsentWordNoChange ==
    (last_op.op = "remove_word" /\ last_op.word \notin DOMAIN last_op.before) =>
        trie = last_op.before

RECURSIVE EnabledThrough(_, _)
\* the number of currently enabled words among ws, each counted as often as
\* it is enabled, whose path goes through the node of path P
EnabledThrough(P, ws) ==
    IF ws = {} THEN 0
    ELSE LET w == CHOOSE v \in ws : TRUE
         IN (IF Len(P) <= Len(w) /\ Prefix(w, Len(P)) = P THEN EnabledCount(w) ELSE 0)
            + EnabledThrough(P, ws \ {w})

-----------------------------------------------------------------------------
(* Properties of fill_grid *)

Done == pc = "done"

\* fill_grid returned the grid / the failure value []
Succeeded == Done /\ result # <<>>
Failed == Done /\ result = <<>>

\* the words in the trie given to fill_grid
TrieWordSet == kept_words(words, Max(rows, cols), 2)

Free(r, c) ==
    /\ r \in 0..(rows - 1) /\ c \in 0..(cols - 1)
    /\ <<r, c>> \notin black_squares

\* the maximal runs of non-blocked cells, of any length >= 1: a run is named
\* by its direction, its first cell and its length
AcrossRuns ==
    {run \in [direction : {"across"}, row : 0..(rows - 1), col : 0..(cols - 1),
              length : 1..cols] :
        /\ \A k \in 0..(run.length - 1) : Free(run.row, run.col + k)
        /\ ~Free(run.row, run.col - 1)
        /\ ~Free(run.row, run.col + run.length)}

DownRuns ==
    {run \in [direction : {"down"}, row : 0..(rows - 1), col : 0..(cols - 1),
              length : 1..rows] :
        /\ \A k \in 0..(run.length - 1) : Free(run.row + k, run.col)
        /\ ~Free(run.row - 1, run.col)
        /\ ~Free(run.row + run.length, run.col)}

\* the runs that are entries
Runs == {run \in AcrossRuns \cup DownRuns : run.length >= 2}

\* the k-th cell of a run, k from 1
RunCell(run, k) ==
    IF run.direction = "across" THEN <<run.row, run.col + k - 1>>
    ELSE <<run.row + k - 1, run.col>>

\* what a run spells in grid g
RunWord(g, run) ==
    [k \in 1..run.length |-> At(g, RunCell(run, k)[1], RunCell(run, k)[2])]

\* C1: whenever fill_grid returns a filled grid, every maximal across or down
\* run of length >= 2 spells a word of the word set loaded into the trie, and
\* no two runs spell the same word.
C1_FilledRunsAreDistinctWords ==
    Succeeded =>
        /\ \A run \in Runs : RunWord(result, run) \in TrieWordSet
        /\ \A r1, r2 \in Runs : RunWord(result, r1) = RunWord(result, r2) => r1 = r2

\* C1 witness: a filled grid with a black square, two-letter and three-letter
\* runs was returned.
C1_Witness ==
    /\ Succeeded
    /\ black_squares # {}
    /\ \E r1, r2 \in Runs : r1.length = 2 /\ r2.length = 3

\* C2 (as claimed): after any call of fill_grid, success or failure, the trie
\* is identical (nodes, counts, is_word_end flags) to the trie before the call.
C2_TrieRestored == Done => trie = trie0

\* a cell that is a whole run by itself, across or down
HasUnitRun == \E run \in AcrossRuns \cup DownRuns : run.length = 1

\* the runs of length >= 2 can be filled with distinct words of the word set:
\* one word per run, of the run's length, no word twice, crossing runs
\* agreeing on the letter of the cell they share
Fillable ==
    \E f \in [Runs -> TrieWordSet] :
        /\ \A run \in Runs : Len(f[run]) = run.length
        /\ \A r1, r2 \in Runs : f[r1] = f[r2] => r1 = r2
        /\ \A r1, r2 \in Runs :
              \A k1 \in 1..r1.length : \A k2 \in 1..r2.length :
                  RunCell(r1, k1) = RunCell(r2, k2) => f[r1][k1] = f[r2][k2]

\* C7 (as claimed): a template with a run of length 1 is solved whenever its
\* runs of length >= 2 can be filled with distinct dictionary words: the
\* length-1 run need not be a word, and its cell is filled with a letter.
C7_UnitRunSolvable ==
    (Done /\ HasUnitRun /\ Fillable) =>
        /\ Succeeded
        /\ \A r \in 0..(rows - 1) : \A c \in 0..(cols - 1) :
              Free(r, c) => At(result, r, c) \in Alphabet

IsS2 == rows = 3 /\ cols = 3 /\ black_squares = {<<1, 1>>} /\ words = WordsS2

\* C8 (as claimed): scenario S2 (3x3, (1,1) blocked, four length-3 words that
\* fit the outer rows and columns): fill_grid succeeds and compute_entries
\* yields exactly four entries, each of length 3.
C8_ScenarioS2 ==
    (Done /\ IsS2) =>
        /\ Succeeded
        /\ LET found == compute_entries(rows, cols, black_squares,
                              build_final_grid(rows, cols, black_squares, result))
           IN /\ Len(found) = 4
              /\ \A i \in DOMAIN found : found[i].length = 3

Is2x2 == rows = 2 /\ cols = 2 /\ black_squares = {}

\* the two rows and two columns of a 2x2 grid are four distinct words of ws
FourDistinctMembers(g, ws) ==
    LET lines == << <<At(g, 0, 0), At(g, 0, 1)>>, <<At(g, 1, 0), At(g, 1, 1)>>,
                    <<At(g, 0, 0), At(g, 1, 0)>>, <<At(g, 0, 1), At(g, 1, 1)>> >>
    IN /\ \A i \in 1..4 : lines[i] \in ws
       /\ \A i, j \in 1..4 : lines[i] = lines[j] => i = j

\* C9 (as claimed): scenario S1 (2x2, no blocked cell, words it, is, io, ts):
\* fill_grid returns a grid whose rows and columns are four distinct members
\* of the word set.
C9_ScenarioS1_AsClaimed ==
    (Done /\ Is2x2 /\ words = WordsS1) =>
        (Succeeded /\ FourDistinctMembers(result, WordsS1))

\* C9 (amended): with the words it, is, io, ts fill_grid returns the failure
\* value (no 2x2 grid has four distinct members of that set as its rows and
\* columns); with the words it, os, io, ts of the scenario's example grid it
\* returns a grid whose rows and columns are four distinct members of the set.
C9_ScenarioS1 ==
    /\ (Done /\ Is2x2 /\ words = WordsS1) => Failed
    /\ (Done /\ Is2x2 /\ words = WordsS1os) =>
          (Succeeded /\ FourDistinctMembers(result, WordsS1os))

\* C9 witness: fill_grid has returned on the words of S1 as written.
C9_Witness == Done /\ Is2x2 /\ words = WordsS1 /\ result = <<>>

\* C10: scenario S3 (2x2, no blocked cell, the one word aa): fill_grid returns
\* the failure value, whatever the order of the candidates.
C10_ScenarioS3 == (Done /\ Is2x2 /\ words = WordsS3) => Failed

\* C10 witness: the search on S3 has placed "aa" in the first row, undone it
\* and returned the failure value.
C10_Witness ==
    /\ Failed /\ Is2x2 /\ words = WordsS3
    /\ trie = trie0 /\ used_words = {}

\* the frames whose candidate is committed: the frame's cell holds a letter
CommittedFrames == {i \in DOMAIN stack :
                      At(grid, Positions[stack[i].pos_index + 1][1],
                               Positions[stack[i].pos_index + 1][2]) # ""}

\* the word of the run that ends at cell (r, c), as the grid spells it
AcrossWordAt(r, c) == build_completed_row_word(grid, black_squares, r, c, At(grid, r, c))
DownWordAt(r, c) == build_completed_col_word(grid, black_squares, r, c, At(grid, r, c))

\* C24: a committed placement that closes both the across run and the down
\* run of its cell closes two different words (a letter that would close
\* the same word twice is skipped), and records the across word before the
\* down word.
C24_NoSameWordTwice ==
    \A i \in CommittedFrames :
        LET r == Positions[stack[i].pos_index + 1][1]
            c == Positions[stack[i].pos_index + 1][2]
        IN (completes_across(cols, black_squares, r, c)
            /\ completes_down(rows, black_squares, r, c)) =>
              /\ AcrossWordAt(r, c) # DownWordAt(r, c)
              /\ stack[i].unique_completed = <<AcrossWordAt(r, c), DownWordAt(r, c)>>

\* the last candidate the top frame took was left aside although both of its
\* runs would have closed on one and the same word of the trie
SameWordSkipped ==
    /\ pc = "loop" /\ Top.k >= 1
    /\ LET ch == Top.possible[Top.k]
       IN /\ At(grid, TopCell[1], TopCell[2]) = ""
          /\ completes_across(cols, black_squares, TopCell[1], TopCell[2])
          /\ completes_down(rows, black_squares, TopCell[1], TopCell[2])
          /\ build_completed_row_word(grid, black_squares, TopCell[1], TopCell[2], ch)
             = build_completed_col_word(grid, black_squares, TopCell[1], TopCell[2], ch)
          /\ is_word(trie, build_completed_row_word(grid, black_squares,
                               TopCell[1], TopCell[2], ch))

\* C24 witness: in the 3x3 grid the letter that closes "tea" both across and
\* down was skipped at the last cell.
C24_Witness == SameWordSkipped /\ words = WordsSameWord

\* the top call of backtrack is at its `return False` of line 254
ReturnsFailure == pc = "loop" /\ Top.k = Len(Top.possible)

\* C25: whenever a call backtrack(i) returns failure, the grid, used_words
\* and the trie are exactly as they were on entry to that call, and every
\* cell at fill_positions[i..] is empty.
C25_FailureRestoresEntry ==
    ReturnsFailure =>
        /\ grid = Top.entry.grid
        /\ used_words = Top.entry.used_words
        /\ trie = Top.entry.trie
        /\ \A j \in (Top.pos_index + 1)..Len(Positions) :
              At(grid, Positions[j][1], Positions[j][2]) = ""

\* C25 witness: a call nested in two others returns failure after it had
\* committed a candidate that closed a word, and undone it.
C25_Witness ==
    /\ ReturnsFailure
    /\ Len(stack) >= 3
    /\ Top.unique_completed # <<>>

\* some assignment of letters to the non-blocked cells passes the solver's
\* own checks: every run, of length 1 too, spells a word of the trie, and no
\* two runs spell the same word
PassesSolverChecks ==
    \E f \in [AcrossRuns \cup DownRuns -> TrieWordSet] :
        /\ \A run \in DOMAIN f : Len(f[run]) = run.length
        /\ \A r1, r2 \in DOMAIN f : f[r1] = f[r2] => r1 = r2
        /\ \A r1, r2 \in DOMAIN f :
              \A k1 \in 1..r1.length : \A k2 \in 1..r2.length :
                  RunCell(r1, k1) = RunCell(r2, k2) => f[r1][k1] = f[r2][k2]

\* C26 (as claimed): fill_grid returns the failure value only if no
\* assignment of letters to the non-blocked cells passes the solver's own
\* checks; so for a fixed trie and template the outcome does not depend on
\* the order of the candidates: a second run of the same call fails iff the
\* earlier one failed.
C26_CompleteSearch ==
    /\ (Done /\ result = <<>>) => ~PassesSolverChecks
    /\ (Done /\ earlier.ran) => (result = <<>> <=> earlier.result = <<>>)

IsS5 == rows = 1 /\ cols = 3 /\ black_squares = {<<0, 1>>} /\ words = {}

\* C11 (as claimed): scenario S5 (1x3, (0,1) blocked, empty word set):
\* fill_grid succeeds with both non-blocked cells filled by some letter, and
\* compute_entries on the result yields no entries.
C11_ScenarioS5 ==
    (Done /\ IsS5) =>
        /\ Succeeded
        /\ At(result, 0, 0) \in Alphabet
        /\ At(result, 0, 2) \in Alphabet
        /\ compute_entries(rows, cols, black_squares,
               build_final_grid(rows, cols, black_squares, result)) = <<>>

\* C14 (as claimed): fill_grid never raises, for any rows, cols, blocked set
\* and trie; when the search fails (backtrack(0) returns False) it returns
\* the failure value [], and it returns the failure value only then.
C14_FailureValueIffSearchFailed ==
    /\ pc # "raised"
    /\ Done => (result = <<>> <=> ~ret)

\* C16 (as claimed): the grid fill_grid returns is a function of rows, cols,
\* the blocked set, the word set, the date and the attempt index alone: a
\* second run of the program that makes the same call for the same date and
\* attempt gets the same result.
C16_SameCallSameResult ==
    (Done /\ earlier.ran) => result = earlier.result

-----------------------------------------------------------------------------
(* Properties of main's loop *)

\* the dates of the loop for which a board was generated
GeneratedDates == {out_f[i].date : i \in DOMAIN out_f}

\* C3 (as claimed): whatever history was fetched for the 100 days before the
\* start date, no word is an answer on a generated date if it is an answer
\* (fetched or generated) on another date less than 100 days earlier.
C3_NoRepeatWithin100Days ==
    \A d \in GeneratedDates : \A e \in DOMAIN history_words_by_date :
        (e < d /\ d - e < HISTORY_DAYS) =>
            history_words_by_date[d] \cap history_words_by_date[e] = {}

\* the answers recorded, fetched or generated, for the dates d-100 .. d-1
WindowWords(d) ==
    UNION {history_words_by_date[e] :
              e \in {x \in DOMAIN history_words_by_date :
                        x >= d - HISTORY_DAYS /\ x <= d - 1}}

\* C12 (as claimed): the working dictionary built for a date D excludes
\* exactly the words of previously_used, and when it is built previously_used
\* is the union of the answer sets recorded for the dates D-100 .. D-1, for
\* every date of the loop and every fetched history, also after skipped days.
C12_WindowIsPrior100Days ==
    mpc = "fill" =>
        /\ words = (base_words \ exclusions) \ previously_used_words
        /\ previously_used_words = WindowWords(cur)

\* C13 (as claimed): scenario S6, D being the start date: "cat" was placed
\* on D-50 and is a base word.  No date from D to D+50 (the dates that have
\* D-50 in their window of 100 prior days) places "cat"; and the working
\* dictionary built for a date after D+51 holds "cat" again if "cat" was not
\* placed in between and is not excluded.
C13_ScenarioS6 ==
    (/\ 0 - 50 \in DOMAIN history_words_by_date
     /\ W("cat") \in history_words_by_date[0 - 50]
     /\ W("cat") \in base_words)
    =>
    /\ \A d \in GeneratedDates :
          d <= 50 => W("cat") \notin history_words_by_date[d]
    /\ (/\ mpc = "fill" /\ cur > 51
        /\ W("cat") \notin exclusions
        /\ \A e \in DOMAIN history_words_by_date :
              (e > 0 - 50 /\ e < cur) => W("cat") \notin history_words_by_date[e])
       => (W("cat") \in words /\ is_word(trie0, W("cat")))

\* C15: for each date the solver is called at most 20 times, with the attempt
\* indices 0..19 in turn; the loop stops at the first attempt that succeeds
\* (the board is written and the next date begins); and a date is left
\* without a success only after attempt 19 failed, and then no record is
\* written and no words are recorded for it in the history.
C15_AttemptBudget ==
    /\ [](attempt \in 0..(ATTEMPTS - 1))
    /\ [][/\ attempt' # attempt =>
               \/ /\ mpc = "fill" /\ pc = "done" /\ result = <<>>
                  /\ attempt' = attempt + 1 /\ cur' = cur /\ pc' = "call"
               \/ /\ mpc = "loop" /\ mpc' = "fill" /\ attempt' = 0
          /\ (mpc = "fill" /\ pc = "done" /\ result # <<>>) =>
               /\ mpc' = "loop" /\ cur' = cur + 1
               /\ out_f' = Append(out_f, out_f'[Len(out_f')])
               /\ out_f'[Len(out_f')].date = cur
               /\ cur \in DOMAIN history_words_by_date'
          /\ (mpc = "fill" /\ mpc' = "loop" /\ result = <<>>) =>
               /\ attempt = ATTEMPTS - 1
               /\ cur' = cur + 1
               /\ out_f' = out_f
               /\ history_words_by_date' = history_words_by_date
      ]_vars

\* C15 witness: the twentieth attempt of a date failed and the date was
\* skipped: nothing was written or recorded for it.
C15_Witness ==
    /\ mpc = "loop" /\ cur > 0
    /\ pc = "done" /\ result = <<>> /\ attempt = ATTEMPTS - 1
    /\ (cur - 1) \notin GeneratedDates
    /\ (cur - 1) \notin DOMAIN history_words_by_date

-----------------------------------------------------------------------------
(* Properties of compute_entries *)

EntriesComputed == mpc = "computed"

\* the run an entry claims to be
EntryRun(e) ==
    [direction |-> e.direction, row |-> e.row, col |-> e.col, length |-> e.length]

\* C17: compute_entries returns exactly one entry for each maximal run of
\* non-blocked cells of length >= 2, across or down, and nothing else: the
\* entry starts where the run starts (the cell before it is blocked or off
\* the grid), ends where the run ends, has the run's length and spells the
\* run's cells; a run of length 1 gives no entry.
C17_OneEntryPerRun ==
    EntriesComputed =>
        /\ {EntryRun(entries[i]) : i \in DOMAIN entries} = Runs
        /\ Len(entries) = Cardinality(Runs)
        /\ \A i \in DOMAIN entries :
              /\ entries[i].length >= 2
              /\ entries[i].answer = upper(RunWord(grid, EntryRun(entries[i])))

\* C17 witness: a grid with a black square, a run of length 1 and entries in
\* both directions went through compute_entries.
C17_Witness ==
    /\ EntriesComputed
    /\ black_squares # {}
    /\ HasUnitRun
    /\ \E i, j \in DOMAIN entries :
          entries[i].direction = "across" /\ entries[j].direction = "down"

\* e1 comes before e2 in the order claimed for the list
EntryBefore(e1, e2) ==
    \/ e1.direction = "across" /\ e2.direction = "down"
    \/ /\ e1.direction = "across" /\ e2.direction = "across"
       /\ (e1.row < e2.row \/ (e1.row = e2.row /\ e1.col < e2.col))
    \/ /\ e1.direction = "down" /\ e2.direction = "down"
       /\ (e1.col < e2.col \/ (e1.col = e2.col /\ e1.row < e2.row))

\* C18: in the list compute_entries returns, the across entries precede the
\* down entries; the across entries are in increasing (row, col) order of
\* their start and the down entries in increasing (col, row) order.
C18_EntryOrder ==
    EntriesComputed =>
        \A i, j \in DOMAIN entries : i < j => EntryBefore(entries[i], entries[j])

\* C18 witness: the list holds two across entries of one row, two down
\* entries of one column, and across and down entries of different rows and
\* columns.
C18_Witness ==
    /\ EntriesComputed
    /\ \E i, j \in DOMAIN entries :
          /\ i # j /\ entries[i].direction = "across" /\ entries[j].direction = "across"
          /\ entries[i].row = entries[j].row
    /\ \E i, j \in DOMAIN entries :
          /\ i # j /\ entries[i].direction = "down" /\ entries[j].direction = "down"
          /\ entries[i].col = entries[j].col
    /\ \E i, j \in DOMAIN entries :
          /\ entries[i].direction = "down" /\ entries[j].direction = "down"
          /\ entries[i].col < entries[j].col /\ entries[i].row > entries[j].row

-----------------------------------------------------------------------------
(* Properties of the daily dictionary *)

\* the words a trie was loaded with: the paths to its is_word_end nodes
LoadedWords(t) == {path \in DOMAIN t : t[path].is_word_end}

\* what C19 asks of a word of the date cur
Admitted(w) ==
    /\ w \in base_words
    /\ w \notin exclusions
    /\ w \notin previously_used_words
    /\ lower(w) = w /\ isalpha(w)
    /\ Len(w) >= 2 /\ Len(w) <= Max(rows, cols)

\* C19: every word loaded into the trie for a date is a base word, is not
\* excluded, is not in previously_used, is lowercase and alphabetic and has a
\* length in [2, max(rows, cols)] of the date's template; and so is every
\* answer placed on that date.
C19_LoadedWordsAdmitted ==
    mpc = "fill" =>
        /\ \A w \in LoadedWords(trie0) : Admitted(w)
        /\ Succeeded => \A run \in Runs : Admitted(RunWord(result, run))

\* C19 witness: fill_grid has run on the trie of a date that was loaded
\* while a base word was excluded, another was used in the last 100 days and
\* a third was too long for the template.
C19_Witness ==
    /\ mpc = "fill" /\ Done
    /\ LoadedWords(trie0) # {}
    /\ base_words \cap exclusions # {}
    /\ base_words \cap previously_used_words # {}
    /\ \E w \in base_words : Len(w) > Max(rows, cols)

\* C20 (as claimed): when the working dictionary of a date holds no word of
\* a length in [2, max(rows, cols)], the date is given up as DictionaryEmpty
\* without a call of the solver: the attempt loop is entered only with an
\* admissible word in the dictionary.
C20_DictionaryEmptyNoSolve ==
    mpc = "fill" => kept_words(words, Max(rows, cols), 2) # {}

-----------------------------------------------------------------------------
(* Properties of the templates *)

\* a positive size, and every black square inside the grid
TemplateValid(nrows, ncols, blacks) ==
    /\ nrows >= 1 /\ ncols >= 1
    /\ \A cell \in blacks :
          cell[1] >= 0 /\ cell[1] < nrows /\ cell[2] >= 0 /\ cell[2] < ncols

\* C21 (as claimed): a template with a black square outside the grid or with
\* rows = 0 or cols = 0 is rejected as TemplateInvalid and never passed to
\* the solver: fill_grid only runs on valid templates.
C21_InvalidTemplateNotSolved ==
    mpc = "fill" => TemplateValid(rows, cols, black_squares)


RECURSIVE SumCounts(_, _)
SumCounts(t, paths) ==
    IF paths = {} THEN 0
    ELSE LET path == CHOOSE q \in paths : TRUE
         IN t[path].count + SumCounts(t, paths \ {path})

\* how many enabled words end at the node of path w: what the node counts
\* beyond what its children count
EndCount(t, w) ==
    t[w].count
        - SumCounts(t, {path \in DOMAIN t : /\ Len(path) = Len(w) + 1
                                             /\ Prefix(path, Len(w)) = w})

\* the words of the trie given to fill_grid that are disabled in t
DisabledWords(t) == {w \in LoadedWords(trie0) : EndCount(t, w) = 0}

\* the words spelled by the completely filled runs of length >= 2 of grid g
FilledRunWords(g) ==
    {RunWord(g, run) : run \in {x \in Runs : \A k \in 1..x.length : RunWord(g, x)[k] # ""}}

Solving == pc \in {"call", "loop", "returned", "done"}

\* C27: at every step of a solve used_words is the set of the words disabled
\* in the trie and the set of the words spelled by the completely filled runs
\* of length >= 2; when fill_grid returns a grid it is the set of the
\* lowercased answers compute_entries extracts from the final grid, which is
\* what main records in the history for the date.
C27_UsedWordsIsDisabledIsFilled ==
    /\ Solving =>
          /\ used_words = DisabledWords(trie)
          /\ used_words = FilledRunWords(grid)
    /\ Succeeded =>
          used_words = today_words(compute_entries(rows, cols, black_squares,
                          build_final_grid(rows, cols, black_squares, result)))
    /\ (Succeeded /\ mpc = "loop" /\ cur - 1 \in DOMAIN history_words_by_date) =>
          history_words_by_date[cur - 1] = used_words

\* C27 witness: main recorded the words of a filled grid in the history.
C27_Witness ==
    /\ Succeeded /\ mpc = "loop" /\ cur - 1 \in DOMAIN history_words_by_date
    /\ Cardinality(used_words) >= 2
    /\ history_words_by_date[cur - 1] = used_words

\* C29: every fill_grid call returns, a filled grid or the failure value, and
\* the recursion never goes deeper than the number of non-blocked cells: the
\* innermost call is backtrack(i) with i <= len(fill_positions), and at most
\* len(fill_positions) calls are inside their loop over the candidates.
C29_Terminates ==
    /\ [](Solving => /\ pos_index <= Len(Positions)
                     /\ Len(stack) <= Len(Positions))
    /\ (pc \in {"call", "loop", "returned"}) ~> Done

\* C29 witness: two searches over 4 cells went to the full depth and
\* returned the filled grid.
C29_Witness ==
    /\ Succeeded
    /\ Len(Positions) >= 4
    /\ earlier.ran

\* the words recorded in the history for the date d
RecordedWords(d) ==
    IF d \in DOMAIN history_words_by_date THEN history_words_by_date[d] ELSE {}

\* the step ends a date for which a board was written
GeneratedDate == mpc = "fill" /\ pc = "done" /\ result # <<>>

\* C30: every step that moves to the next date, whether the date was
\* generated or skipped (no template, no usable word, every attempt failed),
\* takes the words recorded for cur - 100 out of previously_used; a skipped
\* date leaves the history and the output as they are and adds no word to
\* previously_used, a generated date adds the words it records for cur.
C30_EveryDateRollsWindow ==
    [][cur' # cur =>
          /\ cur' = cur + 1
          /\ previously_used_words' \cap RecordedWords(cur - HISTORY_DAYS) = {}
          /\ IF GeneratedDate
             THEN /\ DOMAIN history_words_by_date' = DOMAIN history_words_by_date \cup {cur}
                  /\ previously_used_words' =
                        (previously_used_words \cup history_words_by_date'[cur])
                            \ RecordedWords(cur - HISTORY_DAYS)
             ELSE /\ history_words_by_date' = history_words_by_date
                  /\ out_f' = out_f
                  /\ previously_used_words' =
                        previously_used_words \ RecordedWords(cur - HISTORY_DAYS)]_vars

\* C30 witness: the first date was skipped, nothing was written, and the
\* words fetched for the day 100 days before it are no longer in
\* previously_used although other fetched words are.
C30_Witness ==
    /\ mpc = "loop" /\ cur = 1 /\ out_f = <<>>
    /\ 0 \notin DOMAIN history_words_by_date
    /\ RecordedWords(0 - HISTORY_DAYS) # {}
    /\ previously_used_words \cap RecordedWords(0 - HISTORY_DAYS) = {}
    /\ previously_used_words # {}

=========================================================================
